---- MODULE Spec2Model ----
(***************************************************************************)
(* The schema builder of src/app/components/SchemaTable.tsx (the component *)
(* that starts at line 244): the editable list of field rows, the          *)
(* primary-key selection, the validity predicate and the HCL generator.    *)
(*                                                                         *)
(* Text typed by the user (model name, field name, default value) is a     *)
(* sequence of one-character strings.  The generated text is the sequence  *)
(* of the pieces the template literals concatenate: each literal fragment  *)
(* of the template is one element, and each interpolated text contributes  *)
(* its characters.  Row ids (nanoid strings in the code) are positive      *)
(* numbers and null is 0.                                                  *)
(***************************************************************************)
EXTENDS Integers, Sequences, FiniteSets, TLC

VARIABLES
    dataTypes,       \* prop dataTypes: the configured type enumeration
    showValidation,  \* useState(false)
    schema,          \* useState(schemas[0])
    modelName,       \* useState("")
    rows,            \* useState<SchemaRow[]>
    primaryId,       \* useState<string | null>(null)
    hclOutput,       \* useState("")
    issued,          \* the ids nanoid() has returned so far
    steps            \* number of events handled so far (bounded exploration)

vars == <<dataTypes, showValidation, schema, modelName, rows, primaryId,
          hclOutput, issued, steps>>

(***************************************************************************)
(* Bounds of the exploration.                                              *)
(***************************************************************************)
MaxSteps == 5
MaxRows == 2
MaxEdits == 2

(***************************************************************************)
(* Configuration (the default props) and the inputs the events draw from.  *)
(***************************************************************************)
schemas == <<"public", "application", "user">>

DefaultDataTypes ==
    <<"bigint", "boolean", "char", "date", "decimal", "float", "integer",
      "json", "jsonb", "numeric", "real", "smallint", "text", "time",
      "timestamp", "timestamptz", "uuid", "varchar">>

null == 0

Range(s) == {s[i] : i \in DOMAIN s}

DataTypeConfigs == {DefaultDataTypes, <<>>}

TypeInputs == {"bigint", "uuid"}

ModelNameInputs ==
    { <<>>, <<" ">>, <<"t">>, <<" ", "M", " ", " ", "x", " ">> }

NameInputs ==
    { <<>>, <<"a">>, <<"b", "_", "1">>, <<"1", "a">>, <<"a", " ">> }

DefaultInputs == { <<>>, <<" ">>, <<" ", "x", " ">> }

(***************************************************************************)
(* Characters and the string functions the code uses.                      *)
(***************************************************************************)
LowerSeq ==
    <<"a", "b", "c", "d", "e", "f", "g", "h", "i", "j", "k", "l", "m",
      "n", "o", "p", "q", "r", "s", "t", "u", "v", "w", "x", "y", "z">>

UpperSeq ==
    <<"A", "B", "C", "D", "E", "F", "G", "H", "I", "J", "K", "L", "M",
      "N", "O", "P", "Q", "R", "S", "T", "U", "V", "W", "X", "Y", "Z">>

Digits == {"0", "1", "2", "3", "4", "5", "6", "7", "8", "9"}

Letters == Range(LowerSeq) \cup Range(UpperSeq)

WhiteSpace == {" ", "\t", "\n", "\r", "\f"}

SetMin(S) == CHOOSE x \in S : \A y \in S : x <= y

SetMax(S) == CHOOSE x \in S : \A y \in S : x >= y

\* String.prototype.trim
trim(s) ==
    LET keep == {i \in DOMAIN s : s[i] \notin WhiteSpace}
    IN  IF keep = {} THEN <<>> ELSE SubSeq(s, SetMin(keep), SetMax(keep))

toLowerCaseChar(c) ==
    IF c \in Range(UpperSeq)
    THEN LowerSeq[CHOOSE i \in DOMAIN UpperSeq : UpperSeq[i] = c]
    ELSE c

\* String.prototype.toLowerCase
toLowerCase(s) == [i \in DOMAIN s |-> toLowerCaseChar(s[i])]

\* s.replace(/\s+/g, '_'): every maximal run of whitespace becomes one "_"
RECURSIVE replaceWhitespace(_)
replaceWhitespace(s) ==
    IF s = <<>> THEN <<>>
    ELSE IF Head(s) \in WhiteSpace
         THEN IF Len(s) > 1 /\ s[2] \in WhiteSpace
              THEN replaceWhitespace(Tail(s))
              ELSE <<"_">> \o replaceWhitespace(Tail(s))
         ELSE <<Head(s)>> \o replaceWhitespace(Tail(s))

\* a pattern without its first-character class: /^[a-zA-Z0-9_]+$/
isValidFieldName_anyFirst(name) ==
    /\ Len(name) >= 1
    /\ \A i \in 1..Len(name) : name[i] \in Letters \cup Digits \cup {"_"}

\* /^[a-zA-Z][a-zA-Z0-9_]*$/.test(name)
isValidFieldName(name) ==
    /\ Len(name) >= 1
    /\ name[1] \in Letters
    /\ \A i \in 2..Len(name) : name[i] \in Letters \cup Digits \cup {"_"}

(***************************************************************************)
(* Rows and ids.                                                           *)
(***************************************************************************)
\* a generator that numbers rows by position
nanoid_byPosition == Len(rows) + 1

\* nanoid(): an id that was never returned before
nanoid == SetMax(issued \cup {0}) + 1

\* the row literal of useState's initial value and of handleAddRow
newRow(id) ==
    [id |-> id,
     name |-> <<>>,
     type |-> IF Len(dataTypes) > 0 THEN dataTypes[1] ELSE "",
     isNullable |-> FALSE,
     isUnique |-> FALSE,
     defaultValue |-> <<>>]

rowIds == {rows[i].id : i \in DOMAIN rows}

\* rs.filter(r => r.id !== id)
filterOut(rs, id) == SelectSeq(rs, LAMBDA r : r.id # id)

\* rows.find(r => r.id === id), for an id some row has
find(rs, id) == rs[SetMin({i \in DOMAIN rs : rs[i].id = id})]

(***************************************************************************)
(* The validity predicate (useMemo over modelName and rows).               *)
(***************************************************************************)
rowInvalid(r) ==
    \/ trim(r.name) = <<>>
    \/ ~isValidFieldName(r.name)
    \/ r.type = ""

isValid ==
    IF trim(modelName) = <<>> THEN FALSE
    ELSE IF Len(rows) = 0 THEN FALSE
    ELSE \A i \in DOMAIN rows : ~rowInvalid(rows[i])

(***************************************************************************)
(* The text generateHCL builds.                                            *)
(***************************************************************************)
boolText(b) == IF b THEN "true" ELSE "false"

RECURSIVE flatten(_)
flatten(ss) == IF ss = <<>> THEN <<>> ELSE Head(ss) \o flatten(Tail(ss))

\* an identifier that is only trimmed
tableName_trimOnly(m) == trim(m)

\* modelName.trim().toLowerCase().replace(/\s+/g, '_')
tableName(m) == replaceWhitespace(toLowerCase(trim(m)))

hclHeader(sch, m) ==
    <<"schema \"", sch, "\" {\n  table \"">> \o tableName(m) \o <<"\" {\n">>

\* a default line decided on the untrimmed text
defaultLine_untrimmedTest(r) ==
    IF r.defaultValue # <<>>
    THEN <<"      default = \"">> \o trim(r.defaultValue) \o <<"\"\n">>
    ELSE <<>>

defaultLine(r) ==
    IF trim(r.defaultValue) # <<>>
    THEN <<"      default = \"">> \o trim(r.defaultValue) \o <<"\"\n">>
    ELSE <<>>

columnBlock(r) ==
    <<"    column \"">> \o trim(r.name)
        \o <<"\" {\n      type = ", r.type, "\n      null = ",
             boolText(r.isNullable), "\n">>
        \o defaultLine(r)
        \o <<"    }\n">>

columnBlocks(rs) == flatten([i \in DOMAIN rs |-> columnBlock(rs[i])])

\* a primary-key block that always names the first row
primaryKeyBlock_firstRow(rs, pid) ==
    IF pid # null
    THEN <<"    primary_key { columns = [column.">>
             \o trim(rs[1].name) \o <<"] }\n">>
    ELSE <<>>

primaryKeyBlock(rs, pid) ==
    IF pid # null
    THEN IF \E i \in DOMAIN rs : rs[i].id = pid
         THEN <<"    primary_key { columns = [column.">>
                  \o trim(find(rs, pid).name) \o <<"] }\n">>
         ELSE <<>>
    ELSE <<>>

indexBlock(m, r) ==
    <<"    index \"idx_">> \o tableName(m) \o <<"_">> \o trim(r.name)
        \o <<"\" { columns = [column.">> \o trim(r.name)
        \o <<"] unique = true }\n">>

\* a filter that forgets the unique flag
uniqueRows_anyNamed(rs) == SelectSeq(rs, LAMBDA r : trim(r.name) # <<>>)

uniqueRows(rs) == SelectSeq(rs, LAMBDA r : r.isUnique /\ trim(r.name) # <<>>)

indexBlocks(m, rs) ==
    flatten([i \in DOMAIN uniqueRows(rs) |-> indexBlock(m, uniqueRows(rs)[i])])

hclText(sch, m, rs, pid) ==
    hclHeader(sch, m) \o columnBlocks(rs) \o primaryKeyBlock(rs, pid)
        \o indexBlocks(m, rs) \o <<"  }\n}\n">>

(***************************************************************************)
(* The handlers.                                                           *)
(***************************************************************************)
handleAddRow ==
    /\ rows' = Append(rows, newRow(nanoid))
    /\ issued' = issued \cup {nanoid}
    /\ UNCHANGED <<showValidation, schema, modelName, primaryId, hclOutput>>

\* a removal that clears the selection whichever row goes
handleRemoveRow_alwaysClears(id) ==
    /\ rows' = filterOut(rows, id)
    /\ primaryId' = null
    /\ UNCHANGED <<showValidation, schema, modelName, hclOutput, issued>>

\* a removal that forgets the primary-key selection
handleRemoveRow_keepsSelection(id) ==
    /\ rows' = filterOut(rows, id)
    /\ UNCHANGED <<showValidation, schema, modelName, primaryId, hclOutput,
                   issued>>

handleRemoveRow(id) ==
    /\ rows' = filterOut(rows, id)
    /\ primaryId' = IF primaryId = id THEN null ELSE primaryId
    /\ UNCHANGED <<showValidation, schema, modelName, hclOutput, issued>>

\* an update that writes the field of every row
updateRow_everyRow(rowId, columnId, value) ==
    /\ rows' = [i \in DOMAIN rows |-> [rows[i] EXCEPT ![columnId] = value]]
    /\ UNCHANGED <<showValidation, schema, modelName, primaryId, hclOutput,
                   issued>>

updateRow(rowId, columnId, value) ==
    /\ rows' = [i \in DOMAIN rows |->
                   IF rows[i].id = rowId
                   THEN [rows[i] EXCEPT ![columnId] = value]
                   ELSE rows[i]]
    /\ UNCHANGED <<showValidation, schema, modelName, primaryId, hclOutput,
                   issued>>

setPrimaryId(id) ==
    /\ primaryId' = id
    /\ UNCHANGED <<showValidation, schema, modelName, rows, hclOutput, issued>>

\* a model-name input that is locked while errors are shown
setModelName_lockedByErrors(value) ==
    /\ ~(showValidation /\ ~isValid)
    /\ modelName' = value
    /\ UNCHANGED <<showValidation, schema, rows, primaryId, hclOutput, issued>>

setModelName(value) ==
    /\ modelName' = value
    /\ UNCHANGED <<showValidation, schema, rows, primaryId, hclOutput, issued>>

setSchema(value) ==
    /\ schema' = value
    /\ UNCHANGED <<showValidation, modelName, rows, primaryId, hclOutput,
                   issued>>

\* a generator that returns on an invalid definition before it sets the flag
generateHCL_flagWhenValid ==
    /\ showValidation' = (showValidation \/ isValid)
    /\ hclOutput' = IF ~isValid THEN hclOutput
                    ELSE hclText(schema, modelName, rows, primaryId)
    /\ UNCHANGED <<schema, modelName, rows, primaryId, issued>>

\* a generator without the validity gate
generateHCL_ungated ==
    /\ showValidation' = TRUE
    /\ hclOutput' = hclText(schema, modelName, rows, primaryId)
    /\ UNCHANGED <<schema, modelName, rows, primaryId, issued>>

generateHCL ==
    /\ showValidation' = TRUE
    /\ hclOutput' = IF ~isValid THEN hclOutput
                    ELSE hclText(schema, modelName, rows, primaryId)
    /\ UNCHANGED <<schema, modelName, rows, primaryId, issued>>

(***************************************************************************)
(* The values an edit of one column can carry.                             *)
(***************************************************************************)
EditableColumns == {"name", "type", "isNullable", "isUnique", "defaultValue"}

ColumnInputs(columnId) ==
    CASE columnId = "name" -> NameInputs
      [] columnId = "type" -> TypeInputs \cap Range(dataTypes)
      [] columnId = "isNullable" -> BOOLEAN
      [] columnId = "isUnique" -> BOOLEAN
      [] columnId = "defaultValue" -> DefaultInputs

(***************************************************************************)
(* The events of the rendered component.  Every event is one step.         *)
(***************************************************************************)
Event == steps < MaxSteps /\ steps' = steps + 1 /\ UNCHANGED dataTypes

\* "Add Field" button
ClickAddField == Event /\ handleAddRow

\* trash button of a row: disabled={info.table.options.data.length === 1}
ClickRemove ==
    \E id \in rowIds :
        /\ Len(rows) # 1
        /\ Event
        /\ handleRemoveRow(id)

\* the inputs, the select and the checkboxes of a row
ChangeCell ==
    \E id \in rowIds, columnId \in EditableColumns :
        \E value \in ColumnInputs(columnId) :
            Event /\ updateRow(id, columnId, value)

\* the radio button of a row
ChangePrimary == \E id \in rowIds : Event /\ setPrimaryId(id)

ChangeModelName == \E value \in ModelNameInputs : Event /\ setModelName(value)

ChangeSchema == \E value \in Range(schemas) : Event /\ setSchema(value)

\* "Generate HCL" button: disabled={!isValid && showValidation}
ClickGenerate ==
    /\ ~(~isValid /\ showValidation)
    /\ Event
    /\ generateHCL

\* the state of the hooks after the first render
Mounted ==
    /\ dataTypes \in DataTypeConfigs
    /\ showValidation = FALSE
    /\ schema = schemas[1]
    /\ modelName = <<>>
    /\ rows = <<newRow(1)>>
    /\ primaryId = null
    /\ hclOutput = <<>>
    /\ issued = {1}

Init ==
    /\ Mounted
    /\ steps = 0

Next ==
    \/ ClickAddField
    \/ ClickRemove
    \/ ChangeCell
    \/ ChangePrimary
    \/ ChangeModelName
    \/ ChangeSchema
    \/ ClickGenerate

Spec == Init /\ [][Next]_vars

(***************************************************************************)
(* The handlers called directly, in any order and with any id, as a        *)
(* caller of the store could: no disabled button is in the way.            *)
(***************************************************************************)
IdInputs == issued \cup {nanoid}

CallAddRow == Event /\ handleAddRow

CallRemoveRow == \E id \in IdInputs : Event /\ handleRemoveRow(id)

CallUpdateRow ==
    \E id \in IdInputs, columnId \in EditableColumns :
        \E value \in ColumnInputs(columnId) :
            Event /\ updateRow(id, columnId, value)

CallSetPrimaryId == \E id \in rowIds \cup {null} : Event /\ setPrimaryId(id)

CallGenerateHCL == Event /\ generateHCL

HandlerNext ==
    \/ CallAddRow
    \/ CallRemoveRow
    \/ CallUpdateRow
    \/ CallSetPrimaryId
    \/ ChangeModelName
    \/ ChangeSchema
    \/ CallGenerateHCL

HandlerSpec == Init /\ [][HandlerNext]_vars

(***************************************************************************)
(* The rendered component with a user who, whatever else happens, goes on  *)
(* fixing what the validation display marks and then generates: an empty   *)
(* model name, a field name that is empty or malformed.  (A row without a  *)
(* type cannot be fixed: the select offers the configured types only, and  *)
(* a row has no type only when none is configured.)  The fixes are events  *)
(* of the component with chosen values; the fairness condition on them     *)
(* picks, from every state, one sequence of edits, so what holds           *)
(* eventually here can be reached from every state the component reaches.  *)
(***************************************************************************)
Edit == UNCHANGED <<dataTypes, steps>>

FixModelName ==
    /\ trim(modelName) = <<>>
    /\ Edit
    /\ setModelName(<<"t">>)

FixFieldName ==
    \E id \in rowIds :
        /\ \E i \in DOMAIN rows :
              /\ rows[i].id = id
              /\ trim(rows[i].name) = <<>> \/ ~isValidFieldName(rows[i].name)
        /\ Edit
        /\ updateRow(id, "name", <<"a">>)

GenerateFixed ==
    /\ isValid
    /\ ~(~isValid /\ showValidation)
    /\ Edit
    /\ generateHCL

Repair ==
    \/ FixModelName
    \/ FixFieldName
    \/ GenerateFixed

RepairNext ==
    \/ Next
    \/ Repair

\* the events other than the fixes are at most MaxEdits
InitRepair ==
    /\ Mounted
    /\ steps = MaxSteps - MaxEdits

RepairSpec == InitRepair /\ [][RepairNext]_vars /\ WF_vars(Repair)

(***************************************************************************)
(* The validity predicate and the generator as functions of the            *)
(* definition: the definition is drawn from bounded sets (every one of     *)
(* them is a state some sequence of edits reaches before the first         *)
(* "Generate HCL" click), and the button is then clicked.                  *)
(***************************************************************************)
WithIds(f) == [i \in DOMAIN f |-> [f[i] EXCEPT !.id = i]]

\* a drawn definition sees the given number of events
DrawnDefinition(ModelNames, RowInputs, events) ==
    /\ showValidation = FALSE
    /\ schema = schemas[1]
    /\ modelName \in ModelNames
    /\ \E n \in 1..MaxRows : \E f \in [1..n -> RowInputs] : rows = WithIds(f)
    /\ primaryId \in {null} \cup rowIds
    /\ hclOutput = <<>>
    /\ issued = rowIds
    /\ steps = MaxSteps - events

OtherInputs ==
    { [isNullable |-> FALSE, isUnique |-> FALSE, defaultValue |-> <<>>],
      [isNullable |-> TRUE, isUnique |-> TRUE, defaultValue |-> <<"x">>] }

NamingNames ==
    NameInputs \cup { <<" ">>, <<"Z", "9">>, <<"_", "a">>, <<"a", "-">> }

NamingRowInputs ==
    { [id |-> null, name |-> n, type |-> t, isNullable |-> o.isNullable,
       isUnique |-> o.isUnique, defaultValue |-> o.defaultValue]
      : n \in NamingNames, t \in {newRow(null).type}, o \in OtherInputs }

InitNaming ==
    /\ dataTypes \in DataTypeConfigs
    /\ DrawnDefinition(ModelNameInputs, NamingRowInputs, 1)

NamingSpec == InitNaming /\ [][ClickGenerate]_vars

\* rows that differ in what a column block shows
ColumnsModelNames == { <<" ", "M", " ", " ", "x", " ">> }

ColumnsNames == { <<"a">>, <<"b", "_", "1">> }

ColumnsRowInputs ==
    { [id |-> null, name |-> n, type |-> t, isNullable |-> nu,
       isUnique |-> FALSE, defaultValue |-> d]
      : n \in ColumnsNames, t \in TypeInputs, nu \in BOOLEAN,
        d \in DefaultInputs }

InitColumns ==
    /\ dataTypes = DefaultDataTypes
    /\ DrawnDefinition(ColumnsModelNames, ColumnsRowInputs, 1)

ColumnsSpec == InitColumns /\ [][ClickGenerate]_vars

\* rows that differ in what the primary-key and index blocks show
KeysModelNames == { <<"t">>, <<" ", "M", " ", " ", "x", " ">> }

KeysNames == { <<"a">>, <<"b", "_", "1">>, <<"Z", "9">> }

KeysRowInputs ==
    { [id |-> null, name |-> n, type |-> newRow(null).type,
       isNullable |-> o.isNullable, isUnique |-> u,
       defaultValue |-> o.defaultValue]
      : n \in KeysNames, u \in BOOLEAN, o \in OtherInputs }

InitKeys ==
    /\ dataTypes = DefaultDataTypes
    /\ DrawnDefinition(KeysModelNames, KeysRowInputs, 3)

\* the selection may still move before and after the click
KeysNext ==
    \/ ChangePrimary
    \/ ClickGenerate

KeysSpec == InitKeys /\ [][KeysNext]_vars

\* definitions on which one handler is called after another: a generate,
\* an edit of a cell, a removal
FrameModelNames == { <<"t">> }

\* a blank row, and named rows with their flags and default unset or set
FrameRowInputs ==
    { [newRow(null) EXCEPT !.name = n, !.isNullable = o.isNullable,
                           !.isUnique = o.isUnique,
                           !.defaultValue = o.defaultValue]
      : n \in { <<"a">> }, o \in OtherInputs }
    \cup { newRow(null) }

InitFrame ==
    /\ dataTypes = DefaultDataTypes
    /\ DrawnDefinition(FrameModelNames, FrameRowInputs, 2)

FrameNext ==
    \/ CallGenerateHCL
    \/ CallUpdateRow
    \/ CallRemoveRow

FrameSpec == InitFrame /\ [][FrameNext]_vars

(***************************************************************************)
(* Properties of the row store.                                            *)
(***************************************************************************)
idSeq(rs) == [i \in DOMAIN rs |-> rs[i].id]

removeAt(q, k) == SubSeq(q, 1, k - 1) \o SubSeq(q, k + 1, Len(q))

\* C1: the row list holds at least one row in every state the handlers can
\* reach, so handleRemoveRow on the only row leaves the list unchanged.
C1_AtLeastOneRow == Len(rows) >= 1

\* C2: the primary-key selection is null or the id of a present row, and
\* when the selected row leaves the list the selection becomes null.
C2_SelectionIsPresentRow ==
    /\ [](primaryId = null \/ primaryId \in rowIds)
    /\ [][(primaryId # null /\ primaryId \notin {rows'[i].id : i \in DOMAIN rows'})
             => primaryId' = null]_vars

\* a row was removed, another row is still there and nothing is selected
C2_Witness ==
    /\ primaryId = null
    /\ rows # <<>>
    /\ issued \ rowIds # {}

\* C4: the output text is empty until the first generate; a step changes it
\* only when the definition is valid, and then to the text of that
\* definition, so a generate on an invalid definition leaves it unchanged.
C4_OutputOnlyFromValidDefinition ==
    /\ [](~showValidation => hclOutput = <<>>)
    /\ [][\/ hclOutput' = hclOutput
          \/ /\ isValid
             /\ hclOutput' = hclText(schema, modelName, rows, primaryId)]_vars

\* a generate was clicked, only on invalid definitions: the text is still empty
C4_Witness ==
    /\ showValidation
    /\ ~isValid
    /\ hclOutput = <<>>

\* C10: adding a row is always possible; a step that lengthens the list
\* appends exactly one row, with fresh defaults and an id never issued
\* before; ids are pairwise distinct, and a step leaves the sequence of ids
\* as it was, or drops ids from it, or appends the new id.
C10_AppendedRow ==
    LET r == rows'[Len(rows')]
    IN  /\ Len(rows') = Len(rows) + 1
        /\ SubSeq(rows', 1, Len(rows)) = rows
        /\ r.name = <<>>
        /\ r.defaultValue = <<>>
        /\ r.isNullable = FALSE
        /\ r.isUnique = FALSE
        /\ r.type = (IF dataTypes = <<>> THEN "" ELSE dataTypes[1])
        /\ r.id \notin issued

C10_IdsKept ==
    \/ idSeq(rows') = idSeq(rows)
    \/ \E k \in DOMAIN rows : idSeq(rows') = removeAt(idSeq(rows), k)
    \/ /\ Len(rows') = Len(rows) + 1
       /\ SubSeq(idSeq(rows'), 1, Len(rows)) = idSeq(rows)

C10_AddRowFreshAndIdsStable ==
    /\ [](ENABLED handleAddRow)
    /\ [](rowIds \subseteq issued)
    /\ [](\A i, j \in DOMAIN rows : i # j => rows[i].id # rows[j].id)
    /\ [][(Len(rows') > Len(rows) => C10_AppendedRow) /\ C10_IdsKept]_vars

\* a row was added after another one had been removed
C10_Witness ==
    /\ Len(rows) >= 2
    /\ \E gone \in issued \ rowIds : rows[Len(rows)].id > gone
    /\ rows[Len(rows)] = newRow(rows[Len(rows)].id)

(***************************************************************************)
(* Properties of the validity predicate.                                   *)
(***************************************************************************)
IdentifierChars == Letters \cup Digits \cup {"_"}

\* ^[A-Za-z][A-Za-z0-9_]*$
MatchesIdentifier(name) ==
    /\ name # <<>>
    /\ Head(name) \in Letters
    /\ Range(Tail(name)) \subseteq IdentifierChars

\* C3: the form is valid exactly when the trimmed model name is non-empty
\* and every row has a non-empty name matching the identifier pattern and a
\* non-empty type; no other part of the definition is read.
C3_FormValidity ==
    isValid <=>
        /\ trim(modelName) # <<>>
        /\ \A i \in DOMAIN rows :
              /\ rows[i].name # <<>>
              /\ MatchesIdentifier(rows[i].name)
              /\ rows[i].type # ""

\* a valid form of several rows whose flags, default and selection are set
C3_Witness ==
    /\ isValid
    /\ showValidation
    /\ Len(rows) >= 2
    /\ primaryId # null
    /\ \E i \in DOMAIN rows : rows[i].isUnique /\ rows[i].defaultValue # <<>>

(***************************************************************************)
(* Reading the generated text: the fragments of the emitted grammar.       *)
(***************************************************************************)
TableOpen == "\" {\n  table \""
TableClose == "\" {\n"
ColumnOpen == "    column \""
ColumnType == "\" {\n      type = "
ColumnNull == "\n      null = "
LineEnd == "\n"
DefaultOpen == "      default = \""
BlockClose == "    }\n"
PrimaryKeyOpen == "    primary_key { columns = [column."
PrimaryKeyClose == "] }\n"
IndexOpen == "    index \"idx_"
IndexColumns == "\" { columns = [column."
IndexClose == "] unique = true }\n"

positions(out, piece) == {i \in DOMAIN out : out[i] = piece}

\* the elements of a set of numbers, in increasing order
inOrder(S) ==
    [k \in 1..Cardinality(S) |->
        CHOOSE x \in S : Cardinality({y \in S : y < x}) = k - 1]

\* the first place after p that holds the piece (0 if none)
nextAt(out, p, piece) ==
    LET later == {i \in positions(out, piece) : i > p}
    IN  IF later = {} THEN 0 ELSE SetMin(later)

\* the text between place p and the next occurrence of the piece
textUntil(out, p, piece) == SubSeq(out, p + 1, nextAt(out, p, piece) - 1)

tableIdentifier(out) ==
    textUntil(out, SetMin(positions(out, TableOpen)), TableClose)

\* the model name trimmed, lower-cased, every run of whitespace one "_"
normalised(m) ==
    LET t == trim(m)
        kept == inOrder({i \in DOMAIN t :
                            ~(t[i] \in WhiteSpace /\ t[i - 1] \in WhiteSpace)})
    IN  [k \in DOMAIN kept |->
            IF t[kept[k]] \in WhiteSpace THEN "_"
            ELSE toLowerCaseChar(t[kept[k]])]

\* C5 as stated: the emitted table identifier is the trimmed model name,
\* case and interior whitespace kept.
C5_TableIdentifierTrimOnly ==
    hclOutput # <<>> => tableIdentifier(hclOutput) = trim(modelName)

\* C5, amended: the emitted table identifier is the model name trimmed,
\* lower-cased, with every run of whitespace replaced by one underscore.
C5_TableIdentifierNormalised ==
    hclOutput # <<>> =>
        /\ Cardinality(positions(hclOutput, TableOpen)) = 1
        /\ tableIdentifier(hclOutput) = normalised(modelName)

\* text was generated for a model name with capitals and inner whitespace
C5_Witness ==
    /\ hclOutput # <<>>
    /\ \E i \in DOMAIN trim(modelName) : trim(modelName)[i] \in WhiteSpace
    /\ \E i \in DOMAIN modelName : modelName[i] \in Range(UpperSeq)

(***************************************************************************)
(* Properties of the generated columns, primary key and indexes.           *)
(***************************************************************************)
columnStarts(out) == inOrder(positions(out, ColumnOpen))

columnBlockOf(out, p, r) ==
    LET n == Len(r.name)
        close == nextAt(out, p, BlockClose)
        defaults == {i \in positions(out, DefaultOpen) : p < i /\ i < close}
    IN  /\ SubSeq(out, p + 1, p + n) = r.name
        /\ out[p + n + 1] = ColumnType
        /\ out[p + n + 2] = r.type
        /\ out[p + n + 3] = ColumnNull
        /\ out[p + n + 4] = (IF r.isNullable THEN "true" ELSE "false")
        /\ out[p + n + 5] = LineEnd
        /\ IF trim(r.defaultValue) # <<>>
           THEN defaults = {p + n + 6}
           ELSE defaults = {} /\ close = p + n + 6

\* C6: one column block per row, in row order, each with that row's name,
\* type and nullable flag; a default line exactly when the trimmed default
\* is non-empty, right after the null line.
C6_ColumnBlocks ==
    hclOutput # <<>> =>
        /\ Len(columnStarts(hclOutput)) = Len(rows)
        /\ \A k \in DOMAIN rows :
              columnBlockOf(hclOutput, columnStarts(hclOutput)[k], rows[k])

\* text was generated for rows of different names, one with a default, one
\* with a default of whitespace only
C6_Witness ==
    /\ hclOutput # <<>>
    /\ Len(rows) >= 2
    /\ rows[1].name # rows[2].name
    /\ rows[1].type # rows[2].type
    /\ \E i \in DOMAIN rows : trim(rows[i].defaultValue) # <<>>
    /\ \E i \in DOMAIN rows :
          rows[i].defaultValue # <<>> /\ trim(rows[i].defaultValue) = <<>>

selectedRows ==
    {i \in DOMAIN rows : rows[i].id = primaryId /\ rows[i].name # <<>>}

\* C7: whatever selections came before, a text that generate produces
\* holds at most one primary_key block; it is there exactly when the
\* selection is set and is the id of a present row with a non-empty name,
\* and it then lists that row's column and no other.
C7_BlockForSelection ==
    LET at == positions(hclOutput, PrimaryKeyOpen)
    IN  /\ Cardinality(at) <= 1
        /\ at # {} <=> (primaryId # null /\ selectedRows # {})
        /\ primaryId = null => at = {}
        /\ \A p \in at : \A i \in selectedRows :
              textUntil(hclOutput, p, PrimaryKeyClose) = rows[i].name

C7_PrimaryKeyBlock ==
    [][hclOutput' # hclOutput => C7_BlockForSelection']_vars

\* after a selection was superseded, text was generated with a row other
\* than the first selected
C7_Witness ==
    /\ steps = MaxSteps
    /\ Len(rows) >= 2
    /\ primaryId = rows[2].id
    /\ rows[1].name # rows[2].name
    /\ \E p \in positions(hclOutput, PrimaryKeyOpen) :
          textUntil(hclOutput, p, PrimaryKeyClose) = rows[2].name

indexStarts(out) == inOrder(positions(out, IndexOpen))

indexedRows == SelectSeq(rows, LAMBDA r : r.isUnique /\ r.name # <<>>)

indexBlocksNamed(out, table) ==
    /\ Len(indexStarts(out)) = Len(indexedRows)
    /\ \A k \in DOMAIN indexedRows :
          LET p == indexStarts(out)[k]
              mid == nextAt(out, p, IndexColumns)
          IN  /\ textUntil(out, p, IndexColumns)
                     = table \o <<"_">> \o indexedRows[k].name
              /\ textUntil(out, mid, IndexClose) = indexedRows[k].name
    /\ \A p \in positions(out, IndexOpen) :
          /\ \A c \in positions(out, ColumnOpen) : c < p
          /\ \A c \in positions(out, PrimaryKeyOpen) : c < p

\* C8 as stated: one index block per row that is unique and named, in row
\* order after the columns and the primary key, named idx_<modelName>_<name>
\* with the model name as the spec emits it (trimmed).
C8_IndexBlocksModelName ==
    hclOutput # <<>> => indexBlocksNamed(hclOutput, trim(modelName))

\* C8, amended: the same, with the index named after the emitted table
\* identifier (the normalised model name): idx_<table identifier>_<name>.
C8_IndexBlocksTableIdentifier ==
    hclOutput # <<>> => indexBlocksNamed(hclOutput, normalised(modelName))

\* text was generated for a unique row, a row that is not unique, and a
\* primary key
C8_Witness ==
    /\ hclOutput # <<>>
    /\ Len(rows) >= 2
    /\ ~rows[1].isUnique
    /\ rows[2].isUnique
    /\ primaryId # null

\* C9: in a generated text no two index blocks carry the same name and no
\* two column blocks carry the same column name.
C9_NamesUnique ==
    hclOutput # <<>> =>
        /\ \A p, q \in positions(hclOutput, IndexOpen) :
              p # q => textUntil(hclOutput, p, IndexColumns)
                           # textUntil(hclOutput, q, IndexColumns)
        /\ \A p, q \in positions(hclOutput, ColumnOpen) :
              p # q => textUntil(hclOutput, p, ColumnType)
                           # textUntil(hclOutput, q, ColumnType)

(***************************************************************************)
(* Properties of the edits: what a handler leaves alone.                   *)
(***************************************************************************)
RowFields == {"id", "name", "type", "isNullable", "isUnique", "defaultValue"}

\* the rows after the step are the rows before it, except that the named
\* field of the rows with the given id holds the value
onlyFieldChanged(id, columnId, value) ==
    /\ Len(rows') = Len(rows)
    /\ \A i \in DOMAIN rows :
          IF rows[i].id = id
          THEN /\ rows'[i][columnId] = value
               /\ \A f \in RowFields \ {columnId} : rows'[i][f] = rows[i][f]
          ELSE rows'[i] = rows[i]

\* C11: updateRow(id, column, value) changes only the named field of the
\* row with that id: the other fields of the row, the other rows and their
\* positions, the row count, the selection, the model name, the schema name
\* and the output text stay; with an id no row has, nothing changes.
C11_UpdateChangesOneField ==
    [][\A id \in IdInputs, columnId \in EditableColumns :
          \A value \in ColumnInputs(columnId) :
              updateRow(id, columnId, value) =>
                  /\ onlyFieldChanged(id, columnId, value)
                  /\ UNCHANGED <<primaryId, modelName, schema, hclOutput,
                                 showValidation>>
                  /\ id \notin rowIds => UNCHANGED rows]_vars

\* text was generated and the second of two rows was then given a name no
\* drawn definition holds; the first row, the selection and the text are
\* there to be kept
C11_Witness ==
    /\ hclOutput # <<>>
    /\ Len(rows) >= 2
    /\ rows[1].name = <<"a">>
    /\ rows[2].name = <<"1", "a">>
    /\ primaryId # null

\* every editing event of the component can be taken (as long as the
\* exploration goes on); the removal needs a second row
EditingEnabled ==
    steps < MaxSteps =>
        /\ ENABLED ClickAddField
        /\ ENABLED ChangeCell
        /\ ENABLED ChangePrimary
        /\ ENABLED ChangeModelName
        /\ ENABLED ChangeSchema
        /\ Len(rows) > 1 => ENABLED ClickRemove

\* a valid definition whose text was generated
GeneratedFromValid ==
    /\ isValid
    /\ hclOutput = hclText(schema, modelName, rows, primaryId)
    /\ hclOutput # <<>>

\* C12 as stated: in every reachable state the editing events are enabled,
\* and from every reachable state edits lead to a valid definition whose
\* text is generated.
C12_EditingNeverBlocked ==
    /\ []EditingEnabled
    /\ []<>GeneratedFromValid

\* C12, amended: the same, when at least one data type is configured.
C12_EditingNeverBlockedWithTypes ==
    /\ []EditingEnabled
    /\ [](dataTypes # <<>> => <>GeneratedFromValid)

\* a generate was rejected on a definition of two rows: errors are shown,
\* nothing was generated, and the model name has been fixed since or before
C12_Witness ==
    /\ dataTypes # <<>>
    /\ showValidation
    /\ ~isValid
    /\ hclOutput = <<>>
    /\ Len(rows) >= 2
    /\ trim(modelName) # <<>>

\* C14: handleRemoveRow(id) on a present row of a list of several removes
\* that row and nothing else: the other rows keep contents, ids and order,
\* the selection stays unless it was the removed row, and the model name,
\* the schema name and the generated text stay; with an id no row has,
\* nothing changes.
C14_RemoveTakesOneRow ==
    [][\A id \in IdInputs :
          handleRemoveRow(id) =>
              /\ (id \in rowIds /\ Len(rows) > 1) =>
                    /\ \E k \in DOMAIN rows :
                          rows[k].id = id /\ rows' = removeAt(rows, k)
                    /\ primaryId # id => primaryId' = primaryId
                    /\ UNCHANGED <<modelName, schema, hclOutput,
                                   showValidation>>
              /\ id \notin rowIds =>
                    UNCHANGED <<rows, primaryId, modelName, schema,
                                hclOutput, showValidation, issued>>]_vars

\* text was generated and the first of two rows was then removed, while
\* the second was the selected one and still is
C14_Witness ==
    /\ hclOutput # <<>>
    /\ Len(rows) = 1
    /\ rows[1].id = 2
    /\ 1 \in issued
    /\ primaryId = 2

(***************************************************************************)
(* Properties of the validation display.                                   *)
(***************************************************************************)
generateDisabled == ~isValid /\ showValidation

\* C13: showValidation starts false, every generate sets it, and no step
\* sets it back; the generate button is disabled exactly when the flag is
\* set and the definition is invalid, so the first generate is enabled
\* even on an invalid definition, and that generate changes the flag only.
C13_ValidationFlag ==
    /\ ~showValidation
    /\ [][generateHCL => showValidation']_vars
    /\ [][showValidation => showValidation']_vars
    /\ [](steps < MaxSteps => (ENABLED ClickGenerate <=> ~generateDisabled))
    /\ []((steps < MaxSteps /\ ~showValidation) => ENABLED ClickGenerate)
    /\ [][(~showValidation /\ ~isValid /\ generateHCL) =>
             /\ showValidation'
             /\ UNCHANGED <<schema, modelName, rows, primaryId, hclOutput,
                            issued, dataTypes>>]_vars

\* the first generate came after edits that left the definition invalid:
\* two rows, a malformed field name, a model name; the button is now
\* disabled and there is no text
C13_Witness ==
    /\ showValidation
    /\ generateDisabled
    /\ ~ENABLED ClickGenerate
    /\ steps < MaxSteps
    /\ hclOutput = <<>>
    /\ trim(modelName) # <<>>
    /\ \E i \in DOMAIN rows :
          rows[i].name # <<>> /\ ~isValidFieldName(rows[i].name)

====
